---- MODULE Spec2Model ----
(***************************************************************************)
(* maro/rl/utils/trajectory_utils.py: get_k_step_returns and               *)
(* get_lambda_returns over one trajectory.                                 *)
(*                                                                         *)
(* The caller owns two arrays, rewards and values (values may be None).    *)
(* Array elements are integers; discount and lambda are exact rationals    *)
(* <<numerator, denominator>>, and so are the elements of returned arrays. *)
(* Python indices are 0-based, sequences here are 1-based: Python's a[j]   *)
(* is a[j+1] here.                                                         *)
(***************************************************************************)
EXTENDS Integers, Sequences, FiniteSets, TLC

VARIABLES rewards, values, pc, fn, args, orig, result, prev

vars == <<rewards, values, pc, fn, args, orig, result, prev>>

(* ------------------------------ bounds --------------------------------- *)

MaxN == 3

RewardVals == {1, 2}
ValueVals == {0, 3}

(* --------------------------- exact rationals --------------------------- *)

Abs(n) == IF n < 0 THEN -n ELSE n

Min(a, b) == IF a < b THEN a ELSE b

RECURSIVE GCD(_, _)
GCD(a, b) == IF b = 0 THEN a ELSE GCD(b, a % b)

Norm(n, d) == LET g == GCD(Abs(n), d) IN <<n \div g, d \div g>>

Zero == <<0, 1>>
One == <<1, 1>>
Half == <<1, 2>>
Two == <<2, 1>>

RAdd(a, b) == Norm(a[1] * b[2] + b[1] * a[2], a[2] * b[2])
RSub(a, b) == Norm(a[1] * b[2] - b[1] * a[2], a[2] * b[2])
RMul(a, b) == Norm(a[1] * b[1], a[2] * b[2])

RECURSIVE RPow(_, _)
RPow(a, e) == IF e <= 0 THEN One ELSE RMul(a, RPow(a, e - 1))

RLess(a, b) == a[1] * b[2] < b[1] * a[2]

Discounts == {Zero, Half, Two}
Lambdas == {Zero, Half, One, Two}

(* ------------------------------ arrays --------------------------------- *)

\* An integer array promoted to the result dtype.
AsFloat(arr) == [i \in 1..Len(arr) |-> <<arr[i], 1>>]

\* np.zeros(n)
Zeros(n) == [i \in 1..n |-> Zero]

\* arr[i:] for i >= 0
SliceFrom(arr, i) == IF i >= Len(arr) THEN <<>> ELSE SubSeq(arr, i + 1, Len(arr))

\* np.pad(arr[i:], (0, i))
ShiftPad(arr, i) == AsFloat(SliceFrom(arr, i)) \o Zeros(i)

\* The caller's optional values argument.
None == [present |-> FALSE, arr |-> <<>>]
Some(arr) == [present |-> TRUE, arr |-> arr]

\* A call's outcome: the caller's rewards array afterwards, and either the
\* returned array (tag "ok") or the exception raised.
Ok(rw, arr) == [rewards |-> rw, tag |-> "ok", arr |-> arr]
Raise(rw, exc) == [rewards |-> rw, tag |-> exc, arr |-> <<>>]

\* x*c + y on numpy arrays x and y, with numpy's broadcasting of shapes
\* (a,) and (b,): equal lengths, or one of them 1; otherwise ValueError.
Axpy(rw, x, c, y) ==
  LET xc == [i \in 1..Len(x) |-> RMul(x[i], c)]
  IN  IF Len(xc) = Len(y)
      THEN Ok(rw, [i \in 1..Len(y) |-> RAdd(xc[i], y[i])])
      ELSE IF Len(xc) = 1
      THEN Ok(rw, [i \in 1..Len(y) |-> RAdd(xc[1], y[i])])
      ELSE IF Len(y) = 1
      THEN Ok(rw, [i \in 1..Len(xc) |-> RAdd(xc[i], y[1])])
      ELSE Raise(rw, "ValueError")

(* ------------------------- get_k_step_returns -------------------------- *)

LengthsAgreeOrLonger(rw, vals) == ~vals.present \/ Len(rw) <= Len(vals.arr)

\* assert values is None or len(rewards) == len(values)
LengthsAgree(rw, vals) == ~vals.present \/ Len(rw) = Len(vals.arr)

OverwriteFirst(rw, vals) ==
  IF vals.present THEN [rw EXCEPT ![1] = vals.arr[Len(vals.arr)]] ELSE rw

OverwriteNothing(rw, vals) == rw

\* if values is not None: rewards[-1] = values[-1]
OverwriteLast(rw, vals) ==
  IF vals.present THEN [rw EXCEPT ![Len(rw)] = vals.arr[Len(vals.arr)]] ELSE rw

\* if k < 0: k = len(rewards) - 1
ResolveSteps(k, n) == IF k < 0 THEN n - 1 ELSE k

BootstrapShifted(vals, k, n) ==
  IF vals.present THEN ShiftPad(vals.arr, k + 1) ELSE Zeros(n)

\* np.pad(values[k:], (0, k)) if values is not None else np.zeros(len(rewards))
Bootstrap(vals, k, n) ==
  IF vals.present THEN ShiftPad(vals.arr, k) ELSE Zeros(n)

\* reduce(lambda x, y: x*discount + y, [np.pad(rewards[i:], (0, i)) for i in
\* range(start, -1, -1)], x): the list elements i, i-1, ..., 0 folded into x.
RECURSIVE KFold(_, _, _, _)
KFold(rw, d, i, x) ==
  IF i < 0 \/ x.tag # "ok" THEN x
  ELSE KFold(rw, d, i - 1, Axpy(rw, x.arr, d, ShiftPad(rw, i)))

get_k_step_returns(rw, d, k, vals) ==
  IF ~LengthsAgree(rw, vals) THEN Raise(rw, "AssertionError")
  ELSE LET rw1 == OverwriteLast(rw, vals)
           k1 == ResolveSteps(k, Len(rw1))
       IN  KFold(rw1, d, Min(k1, Len(rw1)) - 1,
                 Ok(rw1, Bootstrap(vals, k1, Len(rw1))))

(* ------------------------- get_lambda_returns -------------------------- *)

\* [get_k_step_returns(rewards, discount, k=k, values=values)
\*  for k in range(truncate_steps-1, 0, -1)]: the calls are made in list order
\* on the caller's array; the first that raises ends the comprehension.
RECURSIVE KStepList(_, _, _, _, _)
KStepList(rw, d, vals, k, acc) ==
  IF k < 1 THEN [rewards |-> rw, tag |-> "ok", list |-> acc]
  ELSE LET c == get_k_step_returns(rw, d, k, vals)
       IN  IF c.tag # "ok"
           THEN [rewards |-> c.rewards, tag |-> c.tag, list |-> <<>>]
           ELSE KStepList(c.rewards, d, vals, k - 1, Append(acc, c.arr))

\* reduce(lambda x, y: x*lmda + y, list) from list[j] on, x the accumulator.
RECURSIVE LambdaFold(_, _, _, _, _)
LambdaFold(rw, list, j, l, x) ==
  IF j > Len(list) \/ x.tag # "ok" THEN x
  ELSE LambdaFold(rw, list, j + 1, l, Axpy(rw, x.arr, l, list[j]))

\* pre_truncate: reduce without an initial value raises TypeError on an
\* empty list.
PreTruncate(rw, d, l, vals, ts) ==
  LET calls == KStepList(rw, d, vals, ts - 1, <<>>)
  IN  IF calls.tag # "ok" THEN Raise(calls.rewards, calls.tag)
      ELSE IF calls.list = <<>> THEN Raise(calls.rewards, "TypeError")
      ELSE LambdaFold(calls.rewards, calls.list, 2, l,
                      Ok(calls.rewards, calls.list[1]))

PostWeightOffByOne(l, ts) == RPow(l, ts)

\* lmda**(truncate_steps-1)
PostWeight(l, ts) == RPow(l, ts - 1)

\* get_k_step_returns(..., k=truncate_steps, ...) * lmda**(truncate_steps-1)
PostTruncate(rw, d, l, vals, ts) ==
  LET c == get_k_step_returns(rw, d, ts, vals)
  IN  IF c.tag # "ok" THEN c
      ELSE Ok(c.rewards, [i \in 1..Len(c.arr) |-> RMul(c.arr[i], PostWeight(l, ts))])

\* return (1 - lmda) * pre_truncate + post_truncate
Combine(pre, l, post) ==
  IF post.tag # "ok" THEN post
  ELSE Axpy(post.rewards, pre.arr, RSub(One, l), post.arr)

\* Lines 61-66 once pre_truncate is evaluated: an exception of pre_truncate
\* propagates, otherwise post_truncate is computed on the same array.
AfterPreTruncate(pre, d, l, vals, ts) ==
  IF pre.tag # "ok" THEN pre
  ELSE Combine(pre, l, PostTruncate(pre.rewards, d, l, vals, ts))

\* Lines 60-66: the general case, truncate_steps clamped to len(rewards) - 1.
GeneralLambda(rw, d, l, vals, ts) ==
  AfterPreTruncate(PreTruncate(rw, d, l, vals, ts), d, l, vals, ts)

get_lambda_returns(rw, d, l, vals, truncate_steps) ==
  LET ts1 == ResolveSteps(truncate_steps, Len(rw))
  IN  IF l = Zero THEN get_k_step_returns(rw, d, 1, vals)
      ELSE IF l = One THEN get_k_step_returns(rw, d, ts1, vals)
      ELSE GeneralLambda(rw, d, l, vals, Min(ts1, Len(rw) - 1))

(* --------------------------- the state machine ------------------------- *)

RECURSIVE SeqsOfLen(_, _)
SeqsOfLen(S, n) ==
  IF n = 0 THEN {<<>>}
  ELSE {Append(s, x) : s \in SeqsOfLen(S, n - 1), x \in S}

SeqsUpTo(S, lo, hi) == UNION {SeqsOfLen(S, n) : n \in lo..hi}

\* Horizons offered to k and truncate_steps: the sentinel, 0, and every
\* horizon up to one past the longest trajectory.
Horizons == (-1)..(MaxN + 1)

NoCall == [discount |-> Zero, lmda |-> Zero, k |-> 0, truncate_steps |-> 0]
NoResult == [tag |-> "none", arr |-> <<>>]

Outcome(c) == [tag |-> c.tag, arr |-> c.arr]

\* The call recorded in (f, a), made on arrays rw and vals.
Call(f, a, rw, vals) ==
  IF f = "get_k_step_returns"
  THEN get_k_step_returns(rw, a.discount, a.k, vals)
  ELSE get_lambda_returns(rw, a.discount, a.lmda, vals, a.truncate_steps)

Init ==
  /\ rewards \in SeqsUpTo(RewardVals, 1, MaxN)
  /\ values \in {None} \cup {Some(v) : v \in SeqsUpTo(ValueVals, 0, MaxN)}
  /\ pc = "idle"
  /\ fn = "none"
  /\ args = NoCall
  /\ orig = rewards
  /\ result = NoResult
  /\ prev = NoResult

Invoke(f, a) ==
  LET c == Call(f, a, rewards, values)
  IN  /\ fn' = f
      /\ args' = a
      /\ orig' = rewards
      /\ rewards' = c.rewards
      /\ prev' = result
      /\ result' = Outcome(c)
      /\ UNCHANGED values

GetKStepReturns ==
  /\ pc = "idle"
  /\ \E d \in Discounts, k \in Horizons :
       Invoke("get_k_step_returns", [NoCall EXCEPT !.discount = d, !.k = k])
  /\ pc' = "done"

GetLambdaReturns ==
  /\ pc = "idle"
  /\ \E d \in Discounts, l \in Lambdas, ts \in Horizons :
       Invoke("get_lambda_returns",
              [NoCall EXCEPT !.discount = d, !.lmda = l, !.truncate_steps = ts])
  /\ pc' = "done"

\* The caller makes the same call again on the arrays the first call left.
Repeat ==
  /\ pc = "done"
  /\ Invoke(fn, args)
  /\ pc' = "repeated"

Next == GetKStepReturns \/ GetLambdaReturns \/ Repeat

Spec == Init /\ [][Next]_vars

(* ------------------------ vocabulary of the claims --------------------- *)

\* A call has been made; orig is the rewards array it was given, rewards the
\* array it left, result its outcome.
Called == pc \in {"done", "repeated"}
CalledK == Called /\ fn = "get_k_step_returns"
CalledLambda == Called /\ fn = "get_lambda_returns"

N == Len(orig)

\* values absent, or of length N
ValuesFit == ~values.present \/ Len(values.arr) = N

\* The reward sequence the returns are defined over: rewards[N-1] taken as
\* values[N-1] when values are supplied.
RewardsUsed == IF values.present THEN [orig EXCEPT ![N] = values.arr[N]] ELSE orig

RewardAt(j) == IF j < N THEN <<RewardsUsed[j + 1], 1>> ELSE Zero

BootstrapAt(j) == IF values.present /\ j < N THEN <<values.arr[j + 1], 1>> ELSE Zero

\* Sum_{i=from}^{K-1} discount^i * reward(t+i)
RECURSIVE DiscountedSum(_, _, _)
DiscountedSum(t, from, K) ==
  IF from >= K THEN Zero
  ELSE RAdd(RMul(RPow(args.discount, from), RewardAt(t + from)),
            DiscountedSum(t, from + 1, K))

KStepFormula(t, K) ==
  RAdd(DiscountedSum(t, 0, K), RMul(RPow(args.discount, K), BootstrapAt(t + K)))

\* Sum_{j=from}^{N-1} discount^(j-t) * rewards[j] over the caller's rewards
RECURSIVE RewardsFrom(_, _)
RewardsFrom(t, from) ==
  IF from > N - 1 THEN Zero
  ELSE RAdd(RMul(RPow(args.discount, from - t), <<orig[from + 1], 1>>),
            RewardsFrom(t, from + 1))

FullReturn(t) == RewardsFrom(t, t)

\* The clamped truncation horizon T' (a negative truncate_steps meaning N-1)
ClampedHorizon == Min(IF args.truncate_steps < 0 THEN N - 1 ELSE args.truncate_steps, N - 1)

\* R_t(n): element t of get_k_step_returns with k = n on the same arguments
KStepElement(t, n) == get_k_step_returns(orig, args.discount, n, values).arr[t + 1]

\* Sum_{n=from}^{T-1} lambda^(n-1) * R_t(n)
RECURSIVE WeightedSum(_, _, _)
WeightedSum(t, from, T) ==
  IF from > T - 1 THEN Zero
  ELSE RAdd(RMul(RPow(args.lmda, from - 1), KStepElement(t, from)),
            WeightedSum(t, from + 1, T))

LambdaFormula(t, T) ==
  RAdd(RMul(RSub(One, args.lmda), WeightedSum(t, 1, T)),
       RMul(RPow(args.lmda, T - 1), KStepElement(t, T)))

(* -------------------------------- claims ------------------------------- *)

\* C1: for a trajectory of length N >= 1, a horizon K with 0 <= K <= N and
\* values absent or of length N, get_k_step_returns returns an array of N
\* elements whose element t is Sum_{i<K} discount^i * reward(t+i) +
\* discount^K * bootstrap(t+K).
C1_KStepFormula ==
  (CalledK /\ ValuesFit /\ args.k \in 0..N) =>
    /\ result.tag = "ok"
    /\ Len(result.arr) = N
    /\ \A t \in 0..(N - 1) : result.arr[t + 1] = KStepFormula(t, args.k)

C1_Witness ==
  /\ pc = "done" /\ CalledK /\ values.present /\ ValuesFit
  /\ N = 3 /\ args.k = 2 /\ args.discount = Half
  /\ result.tag = "ok" /\ result.arr[1] # result.arr[2]

\* C2: a horizon K larger than N never raises and returns the same array as
\* the call with K = N, with values absent or of length N.
C2_ClampLargeK ==
  (CalledK /\ ValuesFit /\ args.k > N) =>
    /\ result.tag = "ok"
    /\ result = Outcome(get_k_step_returns(orig, args.discount, N, values))

\* C3: every array returned, by either function, for values absent or of
\* length N, has exactly N elements.
C3_LengthInvariant ==
  (Called /\ ValuesFit /\ result.tag = "ok") => Len(result.arr) = N

\* C4: with the clamped truncation horizon equal to 1 and lambda strictly
\* between 0 and 1, get_lambda_returns does not raise and returns the
\* one-step return.
C4_EmptySumHandled ==
  (CalledLambda /\ ValuesFit /\ RLess(Zero, args.lmda) /\ RLess(args.lmda, One)
     /\ Min(args.truncate_steps, N - 1) = 1) =>
    /\ result.tag = "ok"
    /\ result = Outcome(get_k_step_returns(orig, args.discount, 1, values))

\* C5: with values absent and k = -1, get_k_step_returns returns the full
\* discounted returns: element t sums every reward from step t to step N-1.
C5_FullReturns ==
  (CalledK /\ ~values.present /\ args.k = -1) =>
    /\ result.tag = "ok"
    /\ Len(result.arr) = N
    /\ \A t \in 0..(N - 1) : result.arr[t + 1] = FullReturn(t)

\* C6: for every lambda and every truncate_steps >= N-1, get_lambda_returns
\* has the same outcome as the call with truncate_steps = N-1.
C6_TruncateClamped ==
  (CalledLambda /\ ValuesFit /\ args.truncate_steps >= N - 1) =>
    result = Outcome(get_lambda_returns(orig, args.discount, args.lmda, values, N - 1))

C8_MismatchRejected ==
  (Called /\ values.present /\ Len(values.arr) # N) =>
    /\ result.tag \notin {"ok", "none"}
    /\ result.arr = <<>>
    /\ rewards = orig

C8_Witness ==
  /\ pc = "done" /\ CalledLambda /\ values.present
  /\ N = 3 /\ Len(values.arr) = 2 /\ args.lmda = Half
  /\ ClampedHorizon = 2 /\ result.tag = "AssertionError"

C10_FinalRewardIrrelevant ==
  (Called /\ values.present /\ ValuesFit) =>
    \A x \in RewardVals \cup ValueVals :
      Outcome(Call(fn, args, [orig EXCEPT ![N] = x], values)) = result

C10_Witness ==
  /\ pc = "done" /\ CalledK /\ values.present /\ ValuesFit
  /\ N = 2 /\ args.k = 1 /\ args.discount = Two
  /\ orig[N] # values.arr[N] /\ result.tag = "ok"

====
